---- MODULE Spec2Model ----
(***************************************************************************)
(* Model of database.py: the Database class (key/value map, value-count    *)
(* index, stack of transaction undo frames) and its operations.            *)
(*                                                                         *)
(* A Python str is the tuple of its code points, so that the ordering used *)
(* by sorted() and the splitting of a command line are computed and not    *)
(* assumed.  Optional[x] is <<>> for None and <<x>> otherwise.             *)
(***************************************************************************)
EXTENDS Integers, Sequences, FiniteSets, TLC

VARIABLES data, counts, transactions, raised, call, scenario, watch, threads

vars == <<data, counts, transactions, raised, call, scenario, watch, threads>>

(* ------------------------------ bounds --------------------------------- *)

\* deepest nesting of begin() explored
MaxDepth == 2

(* ----------------------------- universe -------------------------------- *)

KeyA == <<65>>
KeyB == <<66>>

Keys == {KeyA, KeyB}

\* "1" and "2"
Val1 == <<49>>
Val2 == <<50>>

Values == {Val1, Val2}

\* "NULL"
NULL == <<78, 85, 76, 76>>

None == <<>>

Some(x) == <<x>>

(* ------------------------- dict / list helpers ------------------------- *)

\* d[name] = value on a dict
DictPut(d, name, value) ==
    [k \in DOMAIN d \cup {name} |-> IF k = name THEN value ELSE d[k]]

\* del d[name]
DictDel(d, name) == [k \in DOMAIN d \ {name} |-> d[k]]

\* d.get(name): None when the key is missing
DictGet(d, name) == IF name \in DOMAIN d THEN Some(d[name]) ELSE None

EmptyDict == [k \in {} |-> None]

\* list.pop()
Pop(list) == SubSeq(list, 1, Len(list) - 1)

\* the sequences that enumerate the set S, each element once
Orders(S) ==
    {o \in [1..Cardinality(S) -> S] : \A i, j \in DOMAIN o : i # j => o[i] # o[j]}

(* --------------------------- str comparison ---------------------------- *)

\* Python's str < str: code points compared left to right, a proper prefix
\* is smaller
RECURSIVE StrLess(_, _)
StrLess(a, b) ==
    IF b = <<>> THEN FALSE
    ELSE IF a = <<>> THEN TRUE
    ELSE IF Head(a) # Head(b) THEN Head(a) < Head(b)
    ELSE StrLess(Tail(a), Tail(b))

\* insert x into the ascending list s, after the elements not greater than x
RECURSIVE InsertSorted(_, _)
InsertSorted(s, x) ==
    IF s = <<>> THEN <<x>>
    ELSE IF StrLess(x, Head(s)) THEN <<x>> \o s
    ELSE <<Head(s)>> \o InsertSorted(Tail(s), x)

\* sorted(iterable) on a list of str
RECURSIVE Sorted(_)
Sorted(s) ==
    IF s = <<>> THEN <<>>
    ELSE InsertSorted(Sorted(SubSeq(s, 1, Len(s) - 1)), s[Len(s)])

(* ---------------------------- value index ------------------------------ *)

\* The store as one record; raised is TRUE once a statement has raised, and
\* every later statement of the operation is then skipped.
Store(d, c, t, r) == [data |-> d, counts |-> c, transactions |-> t, raised |-> r]

\* _increment_count that stores 1 instead of adding 1
IncrementCount_Resets(st, value) ==
    IF st.raised THEN st
    ELSE [st EXCEPT !.counts = DictPut(@, value, 1)]

\* _increment_count
IncrementCount(st, value) ==
    IF st.raised THEN st
    ELSE [st EXCEPT !.counts =
            DictPut(@, value, (IF value \in DOMAIN @ THEN @[value] ELSE 0) + 1)]

\* _decrement_count that keeps an entry that reached zero
DecrementCount_KeepsZero(st, value) ==
    IF st.raised THEN st
    ELSE IF value \notin DOMAIN st.counts THEN [st EXCEPT !.raised = TRUE]
    ELSE [st EXCEPT !.counts = [@ EXCEPT ![value] = @ - 1]]

\* _decrement_count: self._counts[value] -= 1 raises KeyError on a missing entry
DecrementCount(st, value) ==
    IF st.raised THEN st
    ELSE IF value \notin DOMAIN st.counts THEN [st EXCEPT !.raised = TRUE]
    ELSE IF st.counts[value] - 1 = 0
         THEN [st EXCEPT !.counts = DictDel(@, value)]
         ELSE [st EXCEPT !.counts = [@ EXCEPT ![value] = @ - 1]]

(* --------------------------- point operations -------------------------- *)

\* the recording done on every open frame instead of the last one
RecordInTop_EveryFrame(st, name, recorded) ==
    [st EXCEPT !.transactions =
        [i \in DOMAIN st.transactions |-> DictPut(st.transactions[i], name, recorded)]]

\* self.transactions[-1][name] = recorded, when a transaction is open
RecordInTop(st, name, recorded) ==
    IF st.transactions # <<>>
    THEN [st EXCEPT !.transactions[Len(st.transactions)] = DictPut(@, name, recorded)]
    ELSE st

\* Database.set
Set(st, name, value) ==
    LET old_value == DictGet(st.data, name)
        s1 == RecordInTop(st, name, old_value)
        s2 == IF old_value # None THEN DecrementCount(s1, old_value[1]) ELSE s1
        s3 == IF s2.raised THEN s2 ELSE [s2 EXCEPT !.data = DictPut(@, name, value)]
    IN  IncrementCount(s3, value)

\* Database.get
Get(st, name) == IF name \in DOMAIN st.data THEN st.data[name] ELSE NULL

\* unset that leaves the key in data
Unset_KeepsKey(st, name) ==
    IF name \in DOMAIN st.data
    THEN LET value == st.data[name]
             s1 == RecordInTop(st, name, Some(value))
         IN  DecrementCount(s1, value)
    ELSE st

\* unset that records the key in the top frame before testing for it
Unset_RecordsAbsent(st, name) ==
    IF name \in DOMAIN st.data
    THEN LET value == st.data[name]
             s1 == RecordInTop(st, name, Some(value))
             s2 == DecrementCount(s1, value)
         IN  IF s2.raised THEN s2 ELSE [s2 EXCEPT !.data = DictDel(@, name)]
    ELSE RecordInTop(st, name, None)

\* Database.unset
Unset(st, name) ==
    IF name \in DOMAIN st.data
    THEN LET value == st.data[name]
             s1 == RecordInTop(st, name, Some(value))
             s2 == DecrementCount(s1, value)
         IN  IF s2.raised THEN s2 ELSE [s2 EXCEPT !.data = DictDel(@, name)]
    ELSE st

\* Database.get_counts
GetCounts(st, value) == IF value \in DOMAIN st.counts THEN st.counts[value] ELSE 0

\* find without sorted()
Find_Unsorted(st, value, items) ==
    SelectSeq(items, LAMBDA name : st.data[name] = value)

\* Database.find; items is the order in which the dict yields its keys
Find(st, value, items) ==
    Sorted(SelectSeq(items, LAMBDA name : st.data[name] = value))

(* ------------------------- transaction control ------------------------- *)

\* Database.begin
Begin(st) == [st EXCEPT !.transactions = Append(@, EmptyDict)]

\* the loop body of rollback that leaves a key the frame recorded as absent
RestoreEntry_KeepsAdded(st, name, old_value) ==
    IF st.raised THEN st
    ELSE IF old_value = None THEN st
    ELSE LET s1 == IF name \in DOMAIN st.data
                   THEN DecrementCount(st, st.data[name]) ELSE st
             s2 == IF s1.raised THEN s1
                   ELSE [s1 EXCEPT !.data = DictPut(@, name, old_value[1])]
         IN  IncrementCount(s2, old_value[1])

\* one iteration of the loop of rollback
RestoreEntry(st, name, old_value) ==
    IF st.raised THEN st
    ELSE IF old_value = None
    THEN IF name \in DOMAIN st.data
         THEN LET s1 == DecrementCount(st, st.data[name])
              IN  IF s1.raised THEN s1 ELSE [s1 EXCEPT !.data = DictDel(@, name)]
         ELSE st
    ELSE LET s1 == IF name \in DOMAIN st.data
                   THEN DecrementCount(st, st.data[name]) ELSE st
             s2 == IF s1.raised THEN s1
                   ELSE [s1 EXCEPT !.data = DictPut(@, name, old_value[1])]
         IN  IncrementCount(s2, old_value[1])

\* the loop of rollback over current_txn.items(), in the order items
RECURSIVE RestoreAll(_, _, _)
RestoreAll(st, current_txn, items) ==
    IF items = <<>> THEN st
    ELSE RestoreAll(RestoreEntry(st, Head(items), current_txn[Head(items)]),
                    current_txn, Tail(items))

\* rollback without the check for an empty stack: transactions[-1] raises
Rollback_NoGuard(st, items) ==
    IF st.transactions = <<>> THEN [st EXCEPT !.raised = TRUE]
    ELSE LET current_txn == st.transactions[Len(st.transactions)]
             s1 == RestoreAll(st, current_txn, items)
         IN  IF s1.raised THEN s1 ELSE [s1 EXCEPT !.transactions = Pop(@)]

\* rollback that forgets self.transactions.pop()
Rollback_KeepsFrame(st, items) ==
    IF st.transactions = <<>> THEN st
    ELSE RestoreAll(st, st.transactions[Len(st.transactions)], items)

\* Database.rollback; items is the order in which the frame yields its keys
Rollback(st, items) ==
    IF st.transactions = <<>> THEN st
    ELSE LET current_txn == st.transactions[Len(st.transactions)]
             s1 == RestoreAll(st, current_txn, items)
         IN  IF s1.raised THEN s1 ELSE [s1 EXCEPT !.transactions = Pop(@)]

\* what rollback returns
RollbackResult(st) == None

\* the loop of commit without the test "name not in parent_txn"
MergeInto_Overwrites(parent_txn, txn) ==
    [name \in DOMAIN parent_txn \cup DOMAIN txn |->
        IF name \in DOMAIN txn THEN txn[name] ELSE parent_txn[name]]

\* the loop of commit: copy the entries the parent does not have
MergeInto(parent_txn, txn) ==
    [name \in DOMAIN parent_txn \cup DOMAIN txn |->
        IF name \in DOMAIN parent_txn THEN parent_txn[name] ELSE txn[name]]

\* commit that pops the frame without the merge into the parent
Commit_DropsFrame(st) ==
    IF st.transactions = <<>> THEN st
    ELSE [st EXCEPT !.transactions = Pop(@)]

\* commit with the body of rollback
Commit_AsRollback(st) ==
    IF st.transactions = <<>> THEN st
    ELSE Rollback(st, CHOOSE o \in Orders(DOMAIN st.transactions[Len(st.transactions)]) : TRUE)

\* Database.commit
Commit(st) ==
    IF st.transactions = <<>> THEN st
    ELSE LET n == Len(st.transactions)
             s1 == IF n > 1
                   THEN [st EXCEPT !.transactions[n - 1] =
                            MergeInto(@, st.transactions[n])]
                   ELSE st
         IN  [s1 EXCEPT !.transactions = Pop(@)]

\* what commit returns
CommitResult(st) == None

(* ------------------------------ the state ------------------------------ *)

\* the Database object as the operations above take it
Now == Store(data, counts, transactions, raised)

\* the call that produced the current state: operation, arguments, returned
\* value, and whether a transaction was open when it was made
Call(op, name, value, ret) ==
    [op |-> op, name |-> name, value |-> value, ret |-> ret,
     hadTxn |-> transactions # <<>>]

NoCall == [op |-> "init", name |-> None, value |-> None, ret |-> None,
           hadTxn |-> FALSE]

\* the script of the nested commit-then-rollback scenario
NestedCommitScript ==
    << <<"begin">>, <<"set", KeyA, Val1>>, <<"begin">>, <<"set", KeyA, Val2>>,
       <<"commit">>, <<"rollback">> >>

\* how many calls of the script the latest calls have matched, counted from
\* an empty store
ScenarioStep(sig) ==
    IF scenario > 0 /\ scenario < Len(NestedCommitScript)
       /\ sig = NestedCommitScript[scenario + 1]
    THEN scenario + 1
    ELSE IF sig = NestedCommitScript[1] /\ DOMAIN data = {} /\ DOMAIN counts = {}
            /\ transactions = <<>>
         THEN 1
         ELSE 0

\* no frame is being followed
Idle == [state |-> "idle"]

\* one caller at a time: no operation is in progress
NoThreads == [phase |-> "idle"]

\* Database.__init__
Init ==
    /\ data = EmptyDict
    /\ counts = EmptyDict
    /\ transactions = <<>>
    /\ raised = FALSE
    /\ call = NoCall
    /\ scenario = 0
    /\ watch = Idle
    /\ threads = NoThreads

\* the object after an operation left it as st
Becomes(st) ==
    /\ data' = st.data
    /\ counts' = st.counts
    /\ transactions' = st.transactions
    /\ raised' = st.raised

(* ------------------------------ the calls ------------------------------ *)

\* A call is made only while no exception has propagated out of the object.

SetStep(name, value) == ~raised /\ Becomes(Set(Now, name, value))

UnsetStep(name) == ~raised /\ Becomes(Unset(Now, name))

ReadStep == ~raised /\ UNCHANGED <<data, counts, transactions, raised>>

BeginStep == ~raised /\ Len(transactions) < MaxDepth /\ Becomes(Begin(Now))

\* the frame's dict yields its keys in some order
RollbackStep ==
    /\ ~raised
    /\ \E items \in Orders(IF transactions = <<>> THEN {}
                           ELSE DOMAIN transactions[Len(transactions)]) :
          Becomes(Rollback(Now, items))

CommitStep == ~raised /\ Becomes(Commit(Now))

DoSet(name, value) ==
    /\ SetStep(name, value)
    /\ call' = Call("set", name, Some(value), None)
    /\ scenario' = ScenarioStep(<<"set", name, value>>)
    /\ UNCHANGED <<watch, threads>>

DoGet(name) ==
    /\ ReadStep
    /\ call' = Call("get", name, None, Some(Get(Now, name)))
    /\ scenario' = ScenarioStep(<<"get", name>>)
    /\ UNCHANGED <<watch, threads>>

DoUnset(name) ==
    /\ UnsetStep(name)
    /\ call' = Call("unset", name, None, None)
    /\ scenario' = ScenarioStep(<<"unset", name>>)
    /\ UNCHANGED <<watch, threads>>

DoGetCounts(value) ==
    /\ ReadStep
    /\ call' = Call("get_counts", None, Some(value), Some(GetCounts(Now, value)))
    /\ scenario' = ScenarioStep(<<"get_counts", value>>)
    /\ UNCHANGED <<watch, threads>>

\* the data dict yields its keys in some order
DoFind(value) ==
    /\ ReadStep
    /\ \E items \in Orders(DOMAIN data) :
          call' = Call("find", None, Some(value), Some(Find(Now, value, items)))
    /\ scenario' = ScenarioStep(<<"find", value>>)
    /\ UNCHANGED <<watch, threads>>

DoBegin ==
    /\ BeginStep
    /\ call' = Call("begin", None, None, None)
    /\ scenario' = ScenarioStep(<<"begin">>)
    /\ UNCHANGED <<watch, threads>>

DoRollback ==
    /\ RollbackStep
    /\ call' = Call("rollback", None, None, RollbackResult(Now))
    /\ scenario' = ScenarioStep(<<"rollback">>)
    /\ UNCHANGED <<watch, threads>>

DoCommit ==
    /\ CommitStep
    /\ call' = Call("commit", None, None, CommitResult(Now))
    /\ scenario' = ScenarioStep(<<"commit">>)
    /\ UNCHANGED <<watch, threads>>

Next ==
    \/ \E name \in Keys, value \in Values : DoSet(name, value)
    \/ \E name \in Keys : DoGet(name)
    \/ \E name \in Keys : DoUnset(name)
    \/ \E value \in Values : DoGetCounts(value)
    \/ \E value \in Values : DoFind(value)
    \/ DoBegin
    \/ DoRollback
    \/ DoCommit

Spec == Init /\ [][Next]_vars

(* ------------------- following one transaction frame ------------------- *)

\* A begin() may be picked to be followed until its frame is popped: watch
\* then holds data and counts as they were just before that begin, the
\* depth of the frame, and whether nested begin..commit scopes completed in
\* it ("commits") or only set/unset ran ("plain").  A nested rollback ends
\* the following.  When rollback pops the followed frame, watch is "undone".

Followed(depth, kind) ==
    [state |-> "open", depth |-> depth, kind |-> kind,
     data |-> data, counts |-> counts]

WatchAfter(op) ==
    IF watch.state # "open" THEN Idle
    ELSE IF op = "rollback"
         THEN IF Len(transactions) = watch.depth /\ ~raised'
              THEN [watch EXCEPT !.state = "undone"]
              ELSE Idle
    ELSE IF op = "commit"
         THEN IF Len(transactions) = watch.depth
              THEN Idle
              ELSE [watch EXCEPT !.kind = "commits"]
    ELSE watch

UndoSet(name, value) ==
    /\ SetStep(name, value)
    /\ watch' = WatchAfter("set")
    /\ UNCHANGED <<call, scenario, threads>>

UndoUnset(name) ==
    /\ UnsetStep(name)
    /\ watch' = WatchAfter("unset")
    /\ UNCHANGED <<call, scenario, threads>>

\* a begin that is not picked
UndoBegin ==
    /\ BeginStep
    /\ watch' = WatchAfter("begin")
    /\ UNCHANGED <<call, scenario, threads>>

\* a begin that is picked, while no other frame is followed
UndoBeginFollowed ==
    /\ BeginStep
    /\ watch.state # "open"
    /\ watch' = Followed(Len(transactions) + 1, "plain")
    /\ UNCHANGED <<call, scenario, threads>>

UndoRollback ==
    /\ RollbackStep
    /\ watch' = WatchAfter("rollback")
    /\ UNCHANGED <<call, scenario, threads>>

UndoCommit ==
    /\ CommitStep
    /\ watch' = WatchAfter("commit")
    /\ UNCHANGED <<call, scenario, threads>>

NextUndo ==
    \/ \E name \in Keys, value \in Values : UndoSet(name, value)
    \/ \E name \in Keys : UndoUnset(name)
    \/ UndoBegin
    \/ UndoBeginFollowed
    \/ UndoRollback
    \/ UndoCommit

SpecUndo == Init /\ [][NextUndo]_vars

(* ---------------- following a frame of single mutations ---------------- *)

\* A begin() may be picked to be followed while its frame is the top frame
\* and each key is the target of at most one set or unset: watch holds data
\* and counts as they were just before that begin and the keys targeted
\* since.  A second set or unset of a key, a nested begin and a commit end
\* the following.  When rollback pops the followed frame, watch is "undone".

FollowedOnce ==
    [state |-> "open", kind |-> "once", touched |-> {},
     data |-> data, counts |-> counts]

OnceAfter(op, name) ==
    IF watch.state # "open" THEN Idle
    ELSE IF op \in {"set", "unset"}
         THEN IF name \in watch.touched
              THEN Idle
              ELSE [watch EXCEPT !.touched = @ \cup {name}]
    ELSE IF op = "rollback" /\ ~raised'
         THEN [watch EXCEPT !.state = "undone"]
    ELSE Idle

OnceSet(name, value) ==
    /\ SetStep(name, value)
    /\ watch' = OnceAfter("set", name)
    /\ UNCHANGED <<call, scenario, threads>>

OnceUnset(name) ==
    /\ UnsetStep(name)
    /\ watch' = OnceAfter("unset", name)
    /\ UNCHANGED <<call, scenario, threads>>

\* a begin that is not picked
OnceBegin ==
    /\ BeginStep
    /\ watch' = OnceAfter("begin", None)
    /\ UNCHANGED <<call, scenario, threads>>

\* a begin that is picked
OnceBeginFollowed ==
    /\ BeginStep
    /\ watch' = FollowedOnce
    /\ UNCHANGED <<call, scenario, threads>>

OnceRollback ==
    /\ RollbackStep
    /\ watch' = OnceAfter("rollback", None)
    /\ UNCHANGED <<call, scenario, threads>>

OnceCommit ==
    /\ CommitStep
    /\ watch' = OnceAfter("commit", None)
    /\ UNCHANGED <<call, scenario, threads>>

NextOnce ==
    \/ \E name \in Keys, value \in Values : OnceSet(name, value)
    \/ \E name \in Keys : OnceUnset(name)
    \/ OnceBegin
    \/ OnceBeginFollowed
    \/ OnceRollback
    \/ OnceCommit

SpecOnce == Init /\ [][NextOnce]_vars

(* ------------------ two callers without mutual exclusion --------------- *)

\* After some calls made one at a time, one caller runs set(name, value)
\* and another runs rollback() on the same object.  A step of a caller is
\* one statement of database.py, named by its line (L16 is line 16); tests
\* of local variables only are taken together with the statement before
\* them.  With threads.mutex a caller runs only while the other is not
\* inside its operation.  Nothing is called after the two operations.

\* deepest nesting of begin() before the two callers start
MaxRaceDepth == 1

SetArgs(name, value) ==
    [pc |-> "L13", name |-> name, value |-> value, old_value |-> None,
     arg |-> None, ret |-> "done", err |-> "none"]

RollbackArgs ==
    [pc |-> "L47", frame |-> 0, size |-> 0, items |-> <<>>, i |-> 0,
     name |-> None, old_value |-> None, arg |-> None, ret |-> "done",
     err |-> "none"]

Finished(me) == me.pc \in {"done", "raised"}

Goto(me, pc) == [me EXCEPT !.pc = pc]

Raise(me, err) == [me EXCEPT !.pc = "raised", !.err = err]

\* a call of _increment_count or _decrement_count, and where it returns to
CallCount(me, pc, arg, ret) == [me EXCEPT !.pc = pc, !.arg = arg, !.ret = ret]

\* the shared object and the caller's locals after a statement
After(d, c, t, me) == [data |-> d, counts |-> c, transactions |-> t, me |-> me]

\* _decrement_count that never deletes the entry
CountStatement_KeepsZero(me) ==
    IF me.pc = "L79"
    THEN After(data,
               DictPut(counts, me.arg,
                       (IF me.arg \in DOMAIN counts THEN counts[me.arg] ELSE 0) + 1),
               transactions, Goto(me, me.ret))
    ELSE IF me.arg \notin DOMAIN counts
    THEN After(data, counts, transactions, Raise(me, "KeyError"))
    ELSE After(data, [counts EXCEPT ![me.arg] = @ - 1], transactions, Goto(me, me.ret))

\* the statements of _increment_count (L79) and _decrement_count (L82-L84)
CountStatement(me) ==
    IF me.pc = "L79"
    THEN After(data,
               DictPut(counts, me.arg,
                       (IF me.arg \in DOMAIN counts THEN counts[me.arg] ELSE 0) + 1),
               transactions, Goto(me, me.ret))
    ELSE IF me.arg \notin DOMAIN counts
    THEN After(data, counts, transactions, Raise(me, "KeyError"))
    ELSE IF me.pc = "L82"
    THEN After(data, [counts EXCEPT ![me.arg] = @ - 1], transactions, Goto(me, "L83"))
    ELSE IF me.pc = "L83"
    THEN After(data, counts, transactions,
               Goto(me, IF counts[me.arg] = 0 THEN "L84" ELSE me.ret))
    ELSE After(data, DictDel(counts, me.arg), transactions, Goto(me, me.ret))

\* line 18 after the frame is dealt with: decrement the old value if any
AfterRecording(me) ==
    IF me.old_value # None
    THEN CallCount(me, "L82", me.old_value[1], "L21")
    ELSE Goto(me, "L21")

\* the statements of set
SetStatement(me) ==
    IF me.pc = "L13"
    THEN After(data, counts, transactions,
               [me EXCEPT !.pc = "L15", !.old_value = DictGet(data, me.name)])
    ELSE IF me.pc = "L15"
    THEN After(data, counts, transactions,
               IF transactions # <<>> THEN Goto(me, "L16") ELSE AfterRecording(me))
    ELSE IF me.pc = "L16"
    THEN IF transactions = <<>>
         THEN After(data, counts, transactions, Raise(me, "IndexError"))
         ELSE After(data, counts,
                    [transactions EXCEPT ![Len(transactions)] =
                        DictPut(@, me.name, me.old_value)],
                    AfterRecording(me))
    ELSE IF me.pc = "L21"
    THEN After(DictPut(data, me.name, me.value), counts, transactions,
               CallCount(me, "L79", me.value, "done"))
    ELSE CountStatement(me)

\* line 51: the next item of current_txn.items(); the iterator raises when
\* the dict has changed size since the loop began
NextItem(me) ==
    IF Cardinality(DOMAIN transactions[me.frame]) # me.size
    THEN Raise(me, "RuntimeError")
    ELSE IF me.i = me.size THEN Goto(me, "L62")
    ELSE LET name == me.items[me.i + 1]
             old_value == transactions[me.frame][name]
         IN  [me EXCEPT !.i = me.i + 1, !.name = name, !.old_value = old_value,
                        !.pc = IF old_value = None THEN "L53" ELSE "L57"]

\* the statements of rollback; items is the order in which the frame
\* yields its keys when the loop begins
RollbackStatement(me, items) ==
    IF me.pc = "L47"
    THEN After(data, counts, transactions,
               Goto(me, IF transactions = <<>> THEN "done" ELSE "L50"))
    ELSE IF me.pc = "L50"
    THEN After(data, counts, transactions,
               [me EXCEPT !.pc = "L51i", !.frame = Len(transactions)])
    ELSE IF me.pc = "L51i"
    THEN After(data, counts, transactions,
               [me EXCEPT !.pc = "L51", !.items = items, !.size = Len(items), !.i = 0])
    ELSE IF me.pc = "L51"
    THEN After(data, counts, transactions, NextItem(me))
    ELSE IF me.pc = "L53"
    THEN After(data, counts, transactions,
               Goto(me, IF me.name \in DOMAIN data THEN "L54" ELSE "L51"))
    ELSE IF me.pc \in {"L54", "L58"}
    THEN After(data, counts, transactions,
               IF me.name \in DOMAIN data
               THEN CallCount(me, "L82", data[me.name],
                              IF me.pc = "L54" THEN "L55" ELSE "L59")
               ELSE Raise(me, "KeyError"))
    ELSE IF me.pc = "L55"
    THEN IF me.name \in DOMAIN data
         THEN After(DictDel(data, me.name), counts, transactions, Goto(me, "L51"))
         ELSE After(data, counts, transactions, Raise(me, "KeyError"))
    ELSE IF me.pc = "L57"
    THEN After(data, counts, transactions,
               Goto(me, IF me.name \in DOMAIN data THEN "L58" ELSE "L59"))
    ELSE IF me.pc = "L59"
    THEN After(DictPut(data, me.name, me.old_value[1]), counts, transactions,
               CallCount(me, "L79", me.old_value[1], "L51"))
    ELSE IF me.pc = "L62"
    THEN After(data, counts, Pop(transactions), Goto(me, "done"))
    ELSE CountStatement(me)

\* the orders in which the followed frame can yield its keys at line 51: a
\* key that the running set has just added to the frame is the last one
ItemOrders ==
    IF threads.rollback.pc = "L51i"
    THEN {o \in Orders(DOMAIN transactions[threads.rollback.frame]) :
            threads.added = None \/ o[Len(o)] = threads.added[1]}
    ELSE {<<>>}

\* whether the set at line 16 adds a key to the frame the rollback works on
Adds(me) ==
    IF /\ me.pc = "L16" /\ transactions # <<>>
       /\ me.name \notin DOMAIN transactions[Len(transactions)]
       /\ threads.rollback.pc \notin {"L47", "L50", "done", "raised"}
    THEN Some(me.name)
    ELSE threads.added

\* with the mutex a caller runs only while the other is outside its operation
MayRun(who) == ~threads.mutex \/ threads.lock \in {"none", who}

LockAfter(who, me) ==
    IF threads.mutex /\ ~Finished(me) THEN who ELSE "none"

RaceSet(name, value) ==
    /\ threads.phase = "idle"
    /\ SetStep(name, value)
    /\ UNCHANGED <<call, scenario, watch, threads>>

RaceUnset(name) ==
    /\ threads.phase = "idle"
    /\ UnsetStep(name)
    /\ UNCHANGED <<call, scenario, watch, threads>>

RaceBegin ==
    /\ threads.phase = "idle"
    /\ Len(transactions) < MaxRaceDepth
    /\ BeginStep
    /\ UNCHANGED <<call, scenario, watch, threads>>

RaceCommit ==
    /\ threads.phase = "idle"
    /\ CommitStep
    /\ UNCHANGED <<call, scenario, watch, threads>>

\* the two callers enter set(name, value) and rollback()
RaceStart(mutex, name, value) ==
    /\ threads.phase = "idle"
    /\ ~raised
    /\ threads' = [phase |-> "racing", mutex |-> mutex, lock |-> "none",
                   added |-> None,
                   set |-> SetArgs(name, value), rollback |-> RollbackArgs]
    /\ UNCHANGED <<data, counts, transactions, raised, call, scenario, watch>>

SetterStep ==
    /\ threads.phase = "racing"
    /\ ~Finished(threads.set)
    /\ MayRun("set")
    /\ LET after == SetStatement(threads.set)
       IN  /\ data' = after.data
           /\ counts' = after.counts
           /\ transactions' = after.transactions
           /\ threads' = [threads EXCEPT !.set = after.me,
                                         !.added = Adds(threads.set),
                                         !.lock = LockAfter("set", after.me)]
    /\ UNCHANGED <<raised, call, scenario, watch>>

RollerStep ==
    /\ threads.phase = "racing"
    /\ ~Finished(threads.rollback)
    /\ MayRun("rollback")
    /\ \E items \in ItemOrders :
          LET after == RollbackStatement(threads.rollback, items)
          IN  /\ data' = after.data
              /\ counts' = after.counts
              /\ transactions' = after.transactions
              /\ threads' = [threads EXCEPT !.rollback = after.me,
                                            !.lock = LockAfter("rollback", after.me)]
    /\ UNCHANGED <<raised, call, scenario, watch>>

NextRace ==
    \/ \E name \in Keys, value \in Values : RaceSet(name, value)
    \/ \E name \in Keys : RaceUnset(name)
    \/ RaceBegin
    \/ RaceCommit
    \/ \E mutex \in BOOLEAN, name \in Keys, value \in Values :
          RaceStart(mutex, name, value)
    \/ SetterStep
    \/ RollerStep

SpecRace == Init /\ [][NextRace]_vars

(* ===================================================================== *)
(* The command layer: CommandProcessor, the Command classes and main.    *)
(* A line is a str, so a tuple of code points.                            *)
(* ===================================================================== *)

\* how deep the transaction stack is explored through commands
MaxCmdDepth == 1

(* ------------------------------ the verbs ------------------------------ *)

\* "SET"
SET == <<83, 69, 84>>

\* "GET"
GET == <<71, 69, 84>>

\* "UNSET"
UNSET == <<85, 78, 83, 69, 84>>

\* "COUNTS"
COUNTS == <<67, 79, 85, 78, 84, 83>>

\* "FIND"
FIND == <<70, 73, 78, 68>>

\* "BEGIN"
BEGIN == <<66, 69, 71, 73, 78>>

\* "ROLLBACK"
ROLLBACK == <<82, 79, 76, 76, 66, 65, 67, 75>>

\* "COMMIT"
COMMIT == <<67, 79, 77, 77, 73, 84>>

\* "END"
END == <<69, 78, 68>>

(* ----------------------------- the messages ---------------------------- *)

\* "Wrong number of arguments for SET"
WrongArgsSET == <<87, 114, 111, 110, 103, 32, 110, 117, 109, 98, 101, 114, 32, 111, 102, 32, 97, 114, 103, 117, 109, 101, 110, 116, 115, 32, 102, 111, 114, 32, 83, 69, 84>>

\* "Wrong number of arguments for GET"
WrongArgsGET == <<87, 114, 111, 110, 103, 32, 110, 117, 109, 98, 101, 114, 32, 111, 102, 32, 97, 114, 103, 117, 109, 101, 110, 116, 115, 32, 102, 111, 114, 32, 71, 69, 84>>

\* "Wrong number of arguments for UNSET"
WrongArgsUNSET == <<87, 114, 111, 110, 103, 32, 110, 117, 109, 98, 101, 114, 32, 111, 102, 32, 97, 114, 103, 117, 109, 101, 110, 116, 115, 32, 102, 111, 114, 32, 85, 78, 83, 69, 84>>

\* "Wrong number of arguments for COUNTS"
WrongArgsCOUNTS == <<87, 114, 111, 110, 103, 32, 110, 117, 109, 98, 101, 114, 32, 111, 102, 32, 97, 114, 103, 117, 109, 101, 110, 116, 115, 32, 102, 111, 114, 32, 67, 79, 85, 78, 84, 83>>

\* "Wrong number of arguments for FIND"
WrongArgsFIND == <<87, 114, 111, 110, 103, 32, 110, 117, 109, 98, 101, 114, 32, 111, 102, 32, 97, 114, 103, 117, 109, 101, 110, 116, 115, 32, 102, 111, 114, 32, 70, 73, 78, 68>>

\* "BEGIN takes no arguments"
NoArgsBEGIN == <<66, 69, 71, 73, 78, 32, 116, 97, 107, 101, 115, 32, 110, 111, 32, 97, 114, 103, 117, 109, 101, 110, 116, 115>>

\* "ROLLBACK takes no arguments"
NoArgsROLLBACK == <<82, 79, 76, 76, 66, 65, 67, 75, 32, 116, 97, 107, 101, 115, 32, 110, 111, 32, 97, 114, 103, 117, 109, 101, 110, 116, 115>>

\* "COMMIT takes no arguments"
NoArgsCOMMIT == <<67, 79, 77, 77, 73, 84, 32, 116, 97, 107, 101, 115, 32, 110, 111, 32, 97, 114, 103, 117, 109, 101, 110, 116, 115>>

\* "END takes no arguments"
NoArgsEND == <<69, 78, 68, 32, 116, 97, 107, 101, 115, 32, 110, 111, 32, 97, 114, 103, 117, 109, 101, 110, 116, 115>>

\* "Unknown command"
UnknownCommand == <<85, 110, 107, 110, 111, 119, 110, 32, 99, 111, 109, 109, 97, 110, 100>>

(* ------------------------------ str methods ---------------------------- *)

\* str.isspace of one code point below 128
IsSpace(c) == c \in (9..13) \cup (28..32)

RECURSIVE LStrip(_)
LStrip(s) == IF s # <<>> /\ IsSpace(Head(s)) THEN LStrip(Tail(s)) ELSE s

RECURSIVE RStrip(_)
RStrip(s) ==
    IF s # <<>> /\ IsSpace(s[Len(s)]) THEN RStrip(SubSeq(s, 1, Len(s) - 1)) ELSE s

\* str.strip()
Strip(s) == RStrip(LStrip(s))

\* the scan of str.split(): word is the token being read, parts the tokens
\* already closed by whitespace
RECURSIVE SplitFrom(_, _, _)
SplitFrom(s, word, parts) ==
    LET closed == IF word = <<>> THEN parts ELSE Append(parts, word)
    IN  IF s = <<>> THEN closed
        ELSE IF IsSpace(Head(s)) THEN SplitFrom(Tail(s), <<>>, closed)
        ELSE SplitFrom(Tail(s), Append(word, Head(s)), parts)

\* str.split() without a separator: runs of whitespace separate the tokens
Split(s) == SplitFrom(s, <<>>, <<>>)

\* str.upper() on code points below 128
Upper(s) == [i \in 1..Len(s) |-> IF s[i] \in 97..122 THEN s[i] - 32 ELSE s[i]]

\* " ".join(words)
RECURSIVE Join(_)
Join(words) ==
    IF words = <<>> THEN <<>>
    ELSE IF Len(words) = 1 THEN words[1]
    ELSE words[1] \o <<32>> \o Join(Tail(words))

\* str(n) of a non-negative int
RECURSIVE Str(_)
Str(n) == IF n < 10 THEN <<48 + n>> ELSE Append(Str(n \div 10), 48 + (n % 10))

(* --------------------------- the Command classes ----------------------- *)

\* what execute leaves behind: the store and the returned Optional[str]
Result(st, ret) == [st |-> st, ret |-> ret]

\* validate_args that accepts extra arguments
ValidateArgs_AtLeast(args, expected) == Len(args) >= expected

\* Command.validate_args
ValidateArgs(args, expected) == Len(args) = expected

\* Each execute is the set of its possible results: one for each order in
\* which a dict the operation walks may yield its keys.

\* SetCommand.execute
SetCommand(st, args) ==
    IF ~ValidateArgs(args, 2) THEN {Result(st, Some(WrongArgsSET))}
    ELSE {Result(Set(st, args[1], args[2]), None)}

\* GetCommand.execute
GetCommand(st, args) ==
    IF ~ValidateArgs(args, 1) THEN {Result(st, Some(WrongArgsGET))}
    ELSE {Result(st, Some(Get(st, args[1])))}

\* UnsetCommand.execute
UnsetCommand(st, args) ==
    IF ~ValidateArgs(args, 1) THEN {Result(st, Some(WrongArgsUNSET))}
    ELSE {Result(Unset(st, args[1]), None)}

\* CountsCommand.execute
CountsCommand(st, args) ==
    IF ~ValidateArgs(args, 1) THEN {Result(st, Some(WrongArgsCOUNTS))}
    ELSE {Result(st, Some(Str(GetCounts(st, args[1]))))}

\* FindCommand.execute
FindCommand(st, args) ==
    IF ~ValidateArgs(args, 1) THEN {Result(st, Some(WrongArgsFIND))}
    ELSE {LET result == Find(st, args[1], items)
          IN  Result(st, Some(IF result # <<>> THEN Join(result) ELSE NULL)) :
             items \in Orders(DOMAIN st.data)}

\* BeginCommand.execute
BeginCommand(st, args) ==
    IF ~ValidateArgs(args, 0) THEN {Result(st, Some(NoArgsBEGIN))}
    ELSE {Result(Begin(st), None)}

\* RollbackCommand.execute
RollbackCommand(st, args) ==
    IF ~ValidateArgs(args, 0) THEN {Result(st, Some(NoArgsROLLBACK))}
    ELSE {Result(Rollback(st, items), RollbackResult(st)) :
             items \in Orders(IF st.transactions = <<>> THEN {}
                              ELSE DOMAIN st.transactions[Len(st.transactions)])}

\* CommitCommand.execute that calls db.rollback()
CommitCommand_CallsRollback(st, args) ==
    IF ~ValidateArgs(args, 0) THEN {Result(st, Some(NoArgsCOMMIT))}
    ELSE {Result(Rollback(st, items), RollbackResult(st)) :
             items \in Orders(IF st.transactions = <<>> THEN {}
                              ELSE DOMAIN st.transactions[Len(st.transactions)])}

\* CommitCommand.execute
CommitCommand(st, args) ==
    IF ~ValidateArgs(args, 0) THEN {Result(st, Some(NoArgsCOMMIT))}
    ELSE {Result(Commit(st), CommitResult(st))}

\* EndCommand.execute: sys.exit(0) raises SystemExit, which nothing catches
EndCommand(st, args) ==
    IF ~ValidateArgs(args, 0) THEN {Result(st, Some(NoArgsEND))}
    ELSE {Result([st EXCEPT !.raised = TRUE], None)}

(* --------------------------- CommandProcessor -------------------------- *)

\* CommandProcessor.__init__: the table self.commands
commands ==
    (SET :> "SetCommand") @@ (GET :> "GetCommand") @@ (UNSET :> "UnsetCommand")
    @@ (COUNTS :> "CountsCommand") @@ (FIND :> "FindCommand")
    @@ (BEGIN :> "BeginCommand") @@ (ROLLBACK :> "RollbackCommand")
    @@ (COMMIT :> "CommitCommand") @@ (END :> "EndCommand")

\* command.execute(self.db, args) for an instance of class
Execute(class, st, args) ==
    CASE class = "SetCommand" -> SetCommand(st, args)
      [] class = "GetCommand" -> GetCommand(st, args)
      [] class = "UnsetCommand" -> UnsetCommand(st, args)
      [] class = "CountsCommand" -> CountsCommand(st, args)
      [] class = "FindCommand" -> FindCommand(st, args)
      [] class = "BeginCommand" -> BeginCommand(st, args)
      [] class = "RollbackCommand" -> RollbackCommand(st, args)
      [] class = "CommitCommand" -> CommitCommand(st, args)
      [] class = "EndCommand" -> EndCommand(st, args)

\* CommandProcessor.process
Process(st, line) ==
    LET parts == Split(Strip(line))
    IN  IF parts = <<>> THEN {Result(st, None)}
        ELSE LET cmd == Upper(Head(parts))
                 args == Tail(parts)
             IN  IF cmd \notin DOMAIN commands
                 THEN {Result(st, Some(UnknownCommand))}
                 ELSE Execute(commands[cmd], st, args)

\* prompt: what input() returned, stripped
Prompt(typed) == Strip(typed)

\* main that prints every result, None included: "None"
Printed_Always(ret) == IF ret = None THEN << <<78, 111, 110, 101>> >> ELSE <<ret[1]>>

\* what main prints for a result: nothing for None and for the empty str
Printed(ret) == IF ret # None /\ ret[1] # <<>> THEN <<ret[1]>> ELSE <<>>


(* ------------------------------ what is typed -------------------------- *)

\* "C", "10", "20" and a word no verb matches, "UNKNOWN"
KeyC == <<67>>
Val10 == <<49, 48>>
Val20 == <<50, 48>>
UNKNOWN == <<85, 78, 75, 78, 79, 87, 78>>

\* the commands whose argument count is the verb's arity
WellFormed ==
    { <<GET, KeyA>>, <<GET, KeyB>>, <<SET, KeyA, Val10>>, <<SET, KeyA, Val20>>,
      <<SET, KeyB, Val20>>, <<SET, KeyC, Val10>>, <<COUNTS, Val10>>,
      <<UNSET, KeyA>>, <<UNSET, KeyB>>, <<FIND, Val10>>,
      <<BEGIN>>, <<ROLLBACK>>, <<COMMIT>>, <<END>> }

\* the commands whose argument count is not the verb's arity
Malformed ==
    { <<SET, KeyA>>, <<SET, KeyA, Val10, Val20>>, <<GET>>, <<UNSET, KeyA, KeyB>>, <<COUNTS, Val10, Val20>>,
      <<FIND>>, <<BEGIN, KeyA>>, <<ROLLBACK, KeyA>>, <<COMMIT, KeyA>>,
      <<END, KeyA>> }

\* the lines whose first word is no verb, and the line without a word
NoVerb == { <<UNKNOWN>>, <<KeyA, SET>> }

Words == WellFormed \cup Malformed \cup NoVerb \cup { <<>> }

\* str.lower() on code points below 128
Lower(s) == [i \in 1..Len(s) |-> IF s[i] \in 65..90 THEN s[i] + 32 ELSE s[i]]

\* the words separated by gap
RECURSIVE Spaced(_, _)
Spaced(words, gap) ==
    IF words = <<>> THEN <<>>
    ELSE IF Len(words) = 1 THEN words[1]
    ELSE words[1] \o gap \o Spaced(Tail(words), gap)

\* the line the user types for words: as it stands, with tabs and spaces
\* around and between the words, or with the verb in lower case
Typed(words, style) ==
    CASE style = "plain" -> Spaced(words, <<32>>)
      [] style = "padded" -> <<32, 9>> \o Spaced(words, <<9, 32>>) \o <<32>>
      [] style = "lower" ->
            IF words = <<>> THEN <<>>
            ELSE Spaced(<<Lower(Head(words))>> \o Tail(words), <<32>>)

\* every line is typed as it stands; these are also typed the other ways
Styled == { <<GET, KeyA>>, <<SET, KeyA, Val10>>, <<SET, KeyA>>, <<UNKNOWN>> }

Inputs ==
    {<<words, "plain">> : words \in Words}
    \cup {<<words, style>> : words \in Styled, style \in {"padded", "lower"}}

(* ------------------------------ the session ---------------------------- *)

\* the transaction scenario
TransactionScript ==
    << <<SET, KeyA, Val10>>, <<BEGIN>>, <<SET, KeyA, Val20>>, <<GET, KeyA>>,
       <<ROLLBACK>>, <<GET, KeyA>>, <<BEGIN>>, <<UNSET, KeyA>>, <<COMMIT>>,
       <<GET, KeyA>> >>

\* the script of test_integration
IntegrationScript ==
    << <<GET, KeyA>>, <<SET, KeyA, Val10>>, <<GET, KeyA>>, <<COUNTS, Val10>>,
       <<SET, KeyB, Val20>>, <<SET, KeyC, Val10>>, <<COUNTS, Val10>>,
       <<UNSET, KeyB>>, <<GET, KeyB>> >>

\* how many lines of script the latest lines have matched, counted from an
\* empty store
Matched(script, n, words) ==
    IF n > 0 /\ n < Len(script) /\ words = script[n + 1] THEN n + 1
    ELSE IF words = script[1] /\ DOMAIN data = {} /\ DOMAIN counts = {}
            /\ transactions = <<>>
         THEN 1
         ELSE 0

\* the last line entered: the words typed, what process returned for them
\* and what main printed
Line(words, ret) ==
    [op |-> "line", words |-> words, ret |-> ret, printed |-> Printed(ret)]

NoLine == [op |-> "init", words |-> <<>>, ret |-> None, printed |-> <<>>]

\* the progress through the two scripts, and what has been printed since the
\* script of test_integration started
Session(words, printed) ==
    LET e2e == Matched(IntegrationScript, scenario.e2e, words)
    IN  [txn |-> Matched(TransactionScript, scenario.txn, words),
         e2e |-> e2e,
         out |-> IF e2e = 0 THEN <<>>
                 ELSE IF e2e = 1 THEN printed
                 ELSE scenario.out \o printed]

\* main up to the first prompt: CommandProcessor.__init__ made the Database
InitCmd ==
    /\ data = EmptyDict
    /\ counts = EmptyDict
    /\ transactions = <<>>
    /\ raised = FALSE
    /\ call = NoLine
    /\ scenario = [txn |-> 0, e2e |-> 0, out |-> <<>>]
    /\ watch = Idle
    /\ threads = NoThreads

\* one turn of the loop of main: prompt, process, print
Enter(words, style) ==
    /\ ~raised
    /\ call.op # "eof"
    /\ \E r \in Process(Now, Prompt(Typed(words, style))) :
          /\ Len(r.st.transactions) <= MaxCmdDepth
          /\ Becomes(r.st)
          /\ call' = Line(words, r.ret)
          /\ scenario' = Session(words, Printed(r.ret))
    /\ UNCHANGED <<watch, threads>>

\* end of input: prompt returns None and the loop of main ends
EndOfInput ==
    /\ ~raised
    /\ call.op # "eof"
    /\ call' = [call EXCEPT !.op = "eof"]
    /\ UNCHANGED <<data, counts, transactions, raised, scenario, watch, threads>>

NextCmd ==
    \/ \E input \in Inputs : Enter(input[1], input[2])
    \/ EndOfInput

SpecCmd == InitCmd /\ [][NextCmd]_vars

(* ------------------------ properties of the store ---------------------- *)

\* the keys that hold value in data
KeysHolding(value) == {k \in DOMAIN data : data[k] = value}

\* lexicographic order on code points, stated without recursion
LexLess(a, b) ==
    \/ Len(a) < Len(b) /\ \A i \in 1..Len(a) : a[i] = b[i]
    \/ \E i \in 1..Len(a) :
          i <= Len(b) /\ a[i] < b[i] /\ \A j \in 1..(i - 1) : a[j] = b[j]

\* the top frame of a non-empty stack
Top(t) == t[Len(t)]

\* C2: in every reachable state counts[v] is the number of keys holding v
\* for every v, counts has no zero or negative entry, and get_counts(v)
\* returns that number (0 when no key holds v).
C2_IndexConsistency ==
    /\ DOMAIN counts = {data[k] : k \in DOMAIN data}
    /\ \A v \in DOMAIN counts : counts[v] > 0 /\ counts[v] = Cardinality(KeysHolding(v))
    /\ \A v \in Values : GetCounts(Now, v) = Cardinality(KeysHolding(v))

\* a rollback in a nested transaction has left two keys on one value and
\* the other value without an entry
C2_Witness ==
    /\ call.op = "rollback" /\ call.hadTxn /\ transactions # <<>>
    /\ \E v \in Values : DOMAIN counts = {v} /\ counts[v] = 2

\* C4: the first set or unset of a key in a frame records in the top frame
\* what the key held just before (None when absent), and a later set or
\* unset of that key in the same frame leaves the entry as it is.
C4_WriteOnce ==
    [][\A k \in Keys :
         (transactions # <<>> /\ call'.op \in {"set", "unset"} /\ call'.name = k)
         => /\ (k \notin DOMAIN Top(transactions) /\ DictGet(data', k) # DictGet(data, k))
               => /\ k \in DOMAIN Top(transactions')
                  /\ Top(transactions')[k] = DictGet(data, k)
            /\ k \in DOMAIN Top(transactions)
               => Top(transactions')[k] = Top(transactions)[k]]_vars

\* C5: rollback and commit on an empty stack do not raise and leave data,
\* counts and the empty stack as they are, however often they are called.
C5_EmptyStackNoOp ==
    [][(transactions = <<>> /\ call'.op \in {"rollback", "commit"})
         => /\ data' = data
            /\ counts' = counts
            /\ transactions' = <<>>
            /\ ~raised']_vars

\* rollback was called with no transaction open on a store that holds keys
C5_Witness ==
    /\ call.op = "rollback" /\ ~call.hadTxn
    /\ DOMAIN data # {} /\ transactions = <<>> /\ ~raised

\* C6: rollback and commit on an empty stack return a 'no transaction'
\* indication, and return none when they popped a frame.
C6_DistinctResult ==
    call.op \in {"rollback", "commit"}
    => IF call.hadTxn THEN call.ret = None ELSE call.ret # None

\* C7: for every value, find returns the keys holding it, each once, in
\* ascending lexicographic order, whatever order the dict yields them in;
\* the empty list when no key holds it.
C7_FindSorted ==
    \A v \in Values, items \in Orders(DOMAIN data) :
       LET found == Find(Now, v, items)
       IN  /\ {found[i] : i \in DOMAIN found} = KeysHolding(v)
           /\ Len(found) = Cardinality(KeysHolding(v))
           /\ \A i, j \in DOMAIN found : i < j => LexLess(found[i], found[j])
           /\ KeysHolding(v) = {} => found = <<>>

\* find has returned two keys while a transaction is open
C7_Witness ==
    /\ call.op = "find" /\ Len(call.ret[1]) = 2 /\ transactions # <<>>

\* C8: right after set(k, v) get(k) is v, get_counts(v) counts k and find(v)
\* lists k; right after unset(k) get(k) is "NULL" and no find lists k; get
\* of a key not in the store is "NULL"; at any depth and with no commit.
C8_ReadYourWrites ==
    /\ call.op = "set"
       => /\ Get(Now, call.name) = call.value[1]
          /\ GetCounts(Now, call.value[1]) = Cardinality(KeysHolding(call.value[1]))
          /\ GetCounts(Now, call.value[1]) >= 1
          /\ \A items \in Orders(DOMAIN data) :
                \E i \in DOMAIN Find(Now, call.value[1], items) :
                   Find(Now, call.value[1], items)[i] = call.name
    /\ call.op = "unset"
       => /\ Get(Now, call.name) = NULL
          /\ \A v \in Values :
                /\ GetCounts(Now, v) = Cardinality(KeysHolding(v))
                /\ \A items \in Orders(DOMAIN data) :
                      \A i \in DOMAIN Find(Now, v, items) :
                         Find(Now, v, items)[i] # call.name
    /\ \A k \in Keys \ DOMAIN data : Get(Now, k) = NULL

\* unset has removed, inside a nested transaction, a key whose set is
\* recorded in that transaction
C8_Witness ==
    /\ call.op = "unset" /\ Len(transactions) >= 2
    /\ call.name \in DOMAIN Top(transactions)
    /\ call.name \notin DOMAIN data

\* C9: no operation raises; every _decrement_count finds its entry.
C9_NeverRaises == ~raised

\* a rollback has put back a value over another one, which takes a
\* decrement of the value it replaced
C9_Witness ==
    /\ call.op = "rollback" /\ call.hadTxn /\ ~raised
    /\ \E k \in DOMAIN data : data[k] = Val1
    /\ \E k \in Keys : k \notin DOMAIN data

\* C10: begin, set A 1, begin, set A 2, commit, rollback on an empty store
\* ends with A absent, no counts and no open transaction.
C10_NestedCommitRollback ==
    scenario = Len(NestedCommitScript)
    => /\ KeyA \notin DOMAIN data
       /\ data = EmptyDict
       /\ counts = EmptyDict
       /\ transactions = <<>>

\* the six calls of the script have been made
C10_Witness == scenario = Len(NestedCommitScript) /\ call.op = "rollback"

(* ----------------------- properties of rollback ------------------------ *)

\* C1: after begin and any sequence of set and unset, rollback leaves data
\* and counts equal to what they were just before that begin.
C1_RollbackIdentity ==
    (watch.state = "undone" /\ watch.kind = "plain")
    => data = watch.data /\ counts = watch.counts

\* C3: after begin, set/unset and complete nested begin..commit scopes,
\* rollback of the enclosing frame leaves data and counts equal to what they
\* were just before the enclosing begin.
C3_EnclosingRollback ==
    (watch.state = "undone" /\ watch.kind = "commits")
    => data = watch.data /\ counts = watch.counts

(* ------------------ properties of single operations -------------------- *)

\* C14: commit at depth >= 2 pops the top frame and leaves the parent with
\* its old entries unchanged plus the popped frame's entries for the keys it
\* did not have; the frames below are untouched; commit at depth 1 leaves
\* the stack empty.
C14_CommitMerge ==
    [][call'.op = "commit"
         => LET n == Len(transactions)
            IN  /\ n = 1 => transactions' = <<>>
                /\ n >= 2
                   => /\ Len(transactions') = n - 1
                      /\ \A i \in 1..(n - 2) : transactions'[i] = transactions[i]
                      /\ DOMAIN transactions'[n - 1]
                           = DOMAIN transactions[n - 1] \cup DOMAIN transactions[n]
                      /\ \A k \in DOMAIN transactions[n - 1] :
                            transactions'[n - 1][k] = transactions[n - 1][k]
                      /\ \A k \in DOMAIN transactions[n] \ DOMAIN transactions[n - 1] :
                            transactions'[n - 1][k] = transactions[n][k]]_vars

\* a commit of a nested transaction has left a parent frame with entries
\* for both keys
C14_Witness ==
    /\ call.op = "commit" /\ call.hadTxn /\ transactions # <<>>
    /\ DOMAIN Top(transactions) = Keys

\* C15: begin and commit leave data and counts as they are; get, get_counts
\* and find leave data, counts and the stack as they are; data and counts
\* change only in set, unset and rollback with a transaction open.
C15_WhoChangesData ==
    [][/\ call'.op \in {"begin", "commit"} => data' = data /\ counts' = counts
       /\ call'.op \in {"get", "get_counts", "find"}
          => data' = data /\ counts' = counts /\ transactions' = transactions
       /\ (data' # data \/ counts' # counts)
          => \/ call'.op \in {"set", "unset"}
             \/ call'.op = "rollback" /\ transactions # <<>>]_vars

\* the outermost commit has made two pending sets permanent
C15_Witness ==
    /\ call.op = "commit" /\ call.hadTxn /\ transactions = <<>>
    /\ DOMAIN data = Keys

\* C16: begin adds one empty frame and does not fail; rollback and commit
\* remove one frame, or leave the empty stack empty; set, unset, get,
\* get_counts and find leave the depth as it is.
C16_Depth ==
    [][LET depth == Len(transactions)
       IN  /\ call'.op = "begin"
              => /\ Len(transactions') = depth + 1
                 /\ Top(transactions') = EmptyDict
                 /\ ~raised'
           /\ call'.op \in {"rollback", "commit"}
              => Len(transactions') = IF depth = 0 THEN 0 ELSE depth - 1
           /\ call'.op \in {"set", "unset", "get", "get_counts", "find"}
              => Len(transactions') = depth]_vars

\* begin has opened a nested transaction
C16_Witness ==
    /\ call.op = "begin" /\ call.hadTxn /\ Len(transactions) = 2
    /\ Top(transactions) = EmptyDict /\ transactions[1] # EmptyDict

\* C17: unset of a key that is not in data changes nothing at any depth:
\* no exception, data, counts and every frame as before.
C17_UnsetAbsent ==
    [][(call'.op = "unset" /\ call'.name \notin DOMAIN data)
         => /\ data' = data
            /\ counts' = counts
            /\ transactions' = transactions
            /\ ~raised']_vars

\* unset was called in a transaction for a key that was absent and is not
\* recorded in the frame
C17_Witness ==
    /\ call.op = "unset" /\ call.hadTxn /\ ~raised
    /\ call.name \notin DOMAIN data
    /\ call.name \notin DOMAIN Top(transactions)

\* C18: set and unset write at most the entry of their key in the top frame
\* and leave the frames below as they are; rollback removes exactly the top
\* frame and changes in data only keys recorded in it.
C18_InnermostOnly ==
    [][/\ (call'.op \in {"set", "unset"} /\ transactions # <<>>)
          => /\ Len(transactions') = Len(transactions)
             /\ Pop(transactions') = Pop(transactions)
             /\ DOMAIN Top(transactions) \subseteq DOMAIN Top(transactions')
             /\ DOMAIN Top(transactions') \subseteq
                   DOMAIN Top(transactions) \cup {call'.name}
             /\ \A k \in DOMAIN Top(transactions) \ {call'.name} :
                   Top(transactions')[k] = Top(transactions)[k]
       /\ (call'.op \in {"set", "unset"} /\ transactions = <<>>)
          => transactions' = <<>>
       /\ (call'.op = "rollback" /\ transactions # <<>>)
          => /\ transactions' = Pop(transactions)
             /\ \A k \in Keys \ DOMAIN Top(transactions) :
                   DictGet(data', k) = DictGet(data, k)]_vars

\* set has recorded its key in the inner frame only, the outer frame holds
\* another key
C18_Witness ==
    /\ call.op = "set" /\ Len(transactions) = 2
    /\ call.name \in DOMAIN Top(transactions)
    /\ call.name \notin DOMAIN transactions[1]
    /\ transactions[1] # EmptyDict

\* C20: when between a begin and the next rollback there is no nested
\* begin, commit or rollback and each key is the target of at most one set
\* or unset, the rollback leaves data and counts equal to what they were
\* just before that begin.
C20_SingleMutationRollback ==
    (watch.state = "undone" /\ watch.kind = "once")
    => data = watch.data /\ counts = watch.counts

\* a rollback has undone one mutation of each key on a store that held a key
C20_Witness ==
    /\ watch.state = "undone" /\ watch.kind = "once"
    /\ watch.touched = Keys
    /\ watch.data # EmptyDict
    /\ transactions # <<>>

(* ----------------------- properties of two callers --------------------- *)

\* counts is the number of keys per value, with no other entry
IndexConsistent ==
    /\ DOMAIN counts = {data[k] : k \in DOMAIN data}
    /\ \A v \in DOMAIN counts : counts[v] = Cardinality(KeysHolding(v))

\* both callers have left their operation
RaceOver ==
    /\ threads.phase = "racing"
    /\ Finished(threads.set) /\ Finished(threads.rollback)

\* C19: with a mutex around each whole operation, set and rollback run by
\* two callers leave counts equal to the number of keys per value and no
\* statement raises; without it a state with a wrong index or a decrement
\* of a missing entry is reachable (the witness).
C19_MutexSafe ==
    (RaceOver /\ threads.mutex)
    => /\ IndexConsistent
       /\ threads.set.pc = "done"
       /\ threads.rollback.pc = "done"

\* without the mutex both callers have returned normally and counts is not
\* the number of keys per value
C19_Witness ==
    /\ RaceOver /\ ~threads.mutex
    /\ threads.set.pc = "done" /\ threads.rollback.pc = "done"
    /\ ~IndexConsistent

(* --------------------- properties of the command layer ----------------- *)

\* the verbs of the table and the number of arguments each execute accepts
Verbs == {SET, GET, UNSET, COUNTS, FIND, BEGIN, ROLLBACK, COMMIT, END}

Arity(verb) ==
    CASE verb = SET -> 2
      [] verb \in {GET, UNSET, COUNTS, FIND} -> 1
      [] verb \in {BEGIN, ROLLBACK, COMMIT, END} -> 0

\* the message each execute returns for another number of arguments
ErrorMessage(verb) ==
    CASE verb = SET -> WrongArgsSET
      [] verb = GET -> WrongArgsGET
      [] verb = UNSET -> WrongArgsUNSET
      [] verb = COUNTS -> WrongArgsCOUNTS
      [] verb = FIND -> WrongArgsFIND
      [] verb = BEGIN -> NoArgsBEGIN
      [] verb = ROLLBACK -> NoArgsROLLBACK
      [] verb = COMMIT -> NoArgsCOMMIT
      [] verb = END -> NoArgsEND

\* words name a verb and carry its number of arguments
HasArity(words) ==
    /\ words # <<>>
    /\ Head(words) \in Verbs
    /\ Len(words) - 1 = Arity(Head(words))

\* C11: from an empty store, after SET A 10; BEGIN; SET A 20 the line GET A
\* returns "20"; after ROLLBACK, GET A returns "10"; after BEGIN; UNSET A;
\* COMMIT, GET A returns "NULL", the stack is empty and A stays unset.
C11_TransactionScenario ==
    /\ scenario.txn = 4 => call.ret = Some(Val20)
    /\ scenario.txn = 6 => call.ret = Some(Val10)
    /\ scenario.txn = 10 =>
          /\ call.ret = Some(NULL)
          /\ transactions = <<>>
          /\ KeyA \notin DOMAIN data

C11_Witness ==
    /\ scenario.txn = Len(TransactionScript)
    /\ call.words = <<GET, KeyA>>
    /\ call.printed = <<NULL>>

\* C12: SET, UNSET and BEGIN print nothing, GET prints the stored value or
\* "NULL", COUNTS prints the number of keys holding the value in decimal,
\* and the nine lines of the integration script entered on an empty store
\* print exactly NULL, 10, 1, 2, NULL in that order.
C12_OutputContract ==
    /\ (HasArity(call.words) /\ Head(call.words) \in {SET, UNSET, BEGIN})
          => call.printed = <<>>
    /\ (HasArity(call.words) /\ Head(call.words) = GET)
          => call.printed =
                <<IF call.words[2] \in DOMAIN data THEN data[call.words[2]]
                  ELSE NULL>>
    /\ (HasArity(call.words) /\ Head(call.words) = COUNTS)
          => call.printed =
                << <<48 + Cardinality(KeysHolding(call.words[2]))>> >>
    /\ scenario.e2e = Len(IntegrationScript)
          => scenario.out = <<NULL, Val10, <<49>>, <<50>>, NULL>>

C12_Witness ==
    /\ scenario.e2e = Len(IntegrationScript)
    /\ Len(scenario.out) = 5
    /\ call.words = <<GET, KeyB>>

\* C13: a line whose verb is known but whose argument count is not the
\* verb's arity returns that verb's error message, a line whose first word
\* is no verb returns "Unknown command", and in both cases data, counts and
\* the transaction stack stay as they were.
C13_Validation ==
    [][(call'.op = "line" /\ call'.words # <<>> /\ ~HasArity(call'.words))
          => /\ call'.ret =
                   Some(IF Head(call'.words) \in Verbs
                        THEN ErrorMessage(Head(call'.words))
                        ELSE UnknownCommand)
             /\ UNCHANGED <<data, counts, transactions, raised>>]_vars

C13_Witness ==
    /\ call.words = <<UNSET, KeyA, KeyB>>
    /\ call.ret = Some(WrongArgsUNSET)
    /\ KeyA \in DOMAIN data
    /\ transactions # <<>>

====
